---- MODULE Spec2Model ----
(***************************************************************************)
(* Model of the virtio-mmio block device of asgard-manager                 *)
(* (src/src/device_emulation/block_device.rs) and of the guest driver and  *)
(* vCPU threads that drive it, and of run_vm of the three hypervisor       *)
(* backends (src/src/vm_setup/*.rs, src/src/windows_bindings.rs).          *)
(*                                                                         *)
(* Guest memory and the backing file are byte arrays.  The model keeps the *)
(* bytes at a finite set of addresses (the ones the guest driver of the    *)
(* model ever sets) and every other byte is zero, as it is in a fresh      *)
(* mapping.  Addresses, lengths and bounds checks are the real ones.       *)
(* The descriptor table and the two rings are kept as typed tables.        *)
(***************************************************************************)
EXTENDS Integers, Sequences, FiniteSets, TLC

\* ------------------------------------------------------------ bounds
\* Number of chains the guest driver publishes in one run.
MaxChains == 2
\* Sectors of the backing file.
NumSectors == 2
\* Bytes kept at the start of every 512-byte block of a buffer or sector.
ModelledBytes == 1
\* Descriptor-table entries the guest driver reserves per chain.
DescPerChain == 4
\* 512-byte blocks of one guest data buffer.
BlocksPerBuffer == 2
\* Largest cpu_cores_count handed to VmSetup::new.
MaxCores == 2

\* ------------------------------------------------- program constants
QueueSize == 1024
SectorSize == 512
GuestMemSize == 65536
DescTableAddr == 4096
AvailRingAddr == 8192
UsedRingAddr == 12288
VIRTIO_MMIO_QUEUE_NOTIFY == 80
VIRTIO_BLK_T_IN == 0
VIRTIO_BLK_T_OUT == 1
VRING_DESC_F_NEXT == 1
VRING_DESC_F_WRITE == 2

U16 == 2 ^ 16

DiskLen == NumSectors * SectorSize

\* The threads that may call into the device.  VirtioBlockDevice holds its
\* state in RefCells, so safe code reaches it from one thread; the second
\* thread exists only in SpecConc.
AllThreads == {1, 2}

\* ------------------------------------------- guest driver's layout
\* Where the guest driver of the model puts the parts of chain k (0-based).
HdrAddr(k) == 6 * 4096 + 16 * k
StatusAddr(k) == 7 * 4096 + k
DataAddr(k) == 8 * 4096 + (BlocksPerBuffer + 1) * SectorSize * k
HeadOf(k) == DescPerChain * k

\* Byte a guest driver leaves in a status field before it submits.
StatusUnset == 2 ^ 8 - 1

Slots == 0 .. (MaxChains - 1)

HdrBytes(k) == {HdrAddr(k), HdrAddr(k) + 8, HdrAddr(k) + 14}
DataBytes(k) ==
    {DataAddr(k) + SectorSize * j + i : j \in 0 .. (BlocksPerBuffer - 1),
                                       i \in 0 .. (ModelledBytes - 1)}
ModelledAddrs ==
    UNION {HdrBytes(k) \cup DataBytes(k) \cup {StatusAddr(k)} : k \in Slots}
ModelledDiskOffs ==
    {SectorSize * s + i : s \in 0 .. (NumSectors - 1), i \in 0 .. (ModelledBytes - 1)}

\* Content of the backing file before the VM starts.
DiskPattern(off) == 200 + 4 * (off \div SectorSize) + (off % SectorSize)
\* Content the guest driver puts in data buffer k for value v.
BufPattern(v, rel) == 32 * v + 4 * (rel \div SectorSize) + (rel % SectorSize) + 1

\* ------------------------------------------------------ byte memory
MemByte(m, a) == IF a \in DOMAIN m THEN m[a] ELSE 0

\* Little-endian value of the n bytes at a (n <= 3 keeps it in range).
RECURSIVE ReadLE(_, _, _)
ReadLE(m, a, n) == IF n = 0 THEN 0 ELSE MemByte(m, a) + 256 * ReadLE(m, a + 1, n - 1)

\* vm_memory read_obj::<T>: Err unless the whole object lies in guest memory.
ObjInMem(a, size) == a >= 0 /\ a + size <= GuestMemSize

\* A u64 kept as three limbs: value = lo + mid * 2^24 + top * 2^48.
ReadU64(m, a) ==
    [lo |-> ReadLE(m, a, 3), mid |-> ReadLE(m, a + 3, 3), top |-> ReadLE(m, a + 6, 2)]

\* ----------------------------------------------------------- state
VARIABLES
    gmem,       \* guest memory bytes (GuestMemoryMmap), at ModelledAddrs
    disk,       \* backing file bytes (MmapMut), at ModelledDiskOffs
    descTable,  \* descriptor table in guest memory: index -> descriptor
    availRing,  \* available ring in guest memory: the heads, in ring order
    usedRing,   \* used ring in guest memory: the (id, len) elements
    usedIdx,    \* used.idx in guest memory
    queue,      \* QueueSync's device-local state
    borrow,     \* holders of each RefCell of the device
    pc,         \* where each thread is in write_mmio / process_descriptor_chain
    loc,        \* locals of process_descriptor_chain, per thread
    irqLog,     \* one entry per Interrupt::trigger(): the chain it was for
    chains,     \* what the guest driver submitted (history)
    fate,       \* what became of each submitted chain (history)
    snap,       \* disk and used ring as each chain was popped (history)
    vm,         \* run_vm: where the top-level task is, what it holds, its result
    vcpu,       \* the blocking task of each vCPU
    faultLog,   \* the vCPUs whose runner returned Err, in the order it happened (history)
    mmio,       \* the last access to a device register and what it returned (history)
    img,        \* the current directory and the last download_linux_lts_image call
    ctor        \* the guest memory handed to VirtioBlockDevice::new and its result

devVars == <<gmem, disk, descTable, availRing, usedRing, usedIdx, queue, borrow,
             pc, loc, irqLog, chains, fate, snap, mmio>>
vmVars == <<vm, vcpu, faultLog>>
hostVars == <<img, ctor>>
vars == <<devVars, vmVars, hostVars>>

ZeroDesc == [addr |-> 0, len |-> 0, flags |-> 0, next |-> 0]
ZeroSector == [lo |-> 0, mid |-> 0, top |-> 0]

NoLoc ==
    [cur |-> 0, head |-> 0, it |-> [next_index |-> 0, ttl |-> 0],
     type |-> 0, sector |-> ZeroSector, data |-> ZeroDesc, status |-> ZeroDesc,
     why |-> ""]

NoSnap == [disk |-> <<>>, usedIdx |-> 0, usedRing |-> <<>>]

Min(a, b) == IF a <= b THEN a ELSE b

\* ------------------------------------------------ the guest driver
Secs ==
    {[lo |-> 0, top |-> 0], [lo |-> NumSectors - 1, top |-> 0],
     [lo |-> NumSectors, top |-> 0], [lo |-> 1, top |-> 128]}

\* The requests the guest driver of the model may submit: well-formed chains
\* of every type over the interesting sectors, two-sector transfers, a chain
\* with two data descriptors ("ok4"), and the malformed shapes.
\* FLUSH, GET_ID and DISCARD of the virtio block protocol: request types the
\* match has no arm for.
NoOpTypes == {4, 8, 11}

InSecs == {sec \in Secs : sec.top = 0 /\ sec.lo < NumSectors}

Requests ==
    [shape : {"ok3"}, type : {VIRTIO_BLK_T_IN}, sec : Secs, len : {SectorSize}, val : {1}]
    \cup
    [shape : {"ok3"}, type : {VIRTIO_BLK_T_OUT}, sec : InSecs, len : {SectorSize},
     val : {1, 2}]
    \cup
    [shape : {"ok3"}, type : {VIRTIO_BLK_T_OUT}, sec : Secs \ InSecs, len : {SectorSize},
     val : {1}]
    \cup
    [shape : {"ok3"}, type : {99}, sec : {[lo |-> 0, top |-> 0]}, len : {SectorSize},
     val : {1}]
    \cup
    [shape : {"ok3"}, type : {VIRTIO_BLK_T_IN, VIRTIO_BLK_T_OUT}, sec : InSecs,
     len : {2 * SectorSize}, val : {1}]
    \cup
    [shape : {"ok3"}, type : NoOpTypes, sec : {[lo |-> 0, top |-> 0]}, len : {SectorSize},
     val : {1}]
    \cup
    [shape : {"ok4"}, type : {VIRTIO_BLK_T_IN}, sec : {[lo |-> 0, top |-> 0]},
     len : {SectorSize}, val : {1}]
    \cup
    [shape : {"hdr_only", "hdr_oom", "hdr_tail", "bad_head"}, type : {VIRTIO_BLK_T_IN},
     sec : {[lo |-> 0, top |-> 0]}, len : {SectorSize}, val : {1}]
    \cup
    [shape : {"no_status", "data_oom"}, type : {VIRTIO_BLK_T_IN, VIRTIO_BLK_T_OUT},
     sec : {[lo |-> 0, top |-> 0]}, len : {SectorSize}, val : {1}]
    \cup
    [shape : {"in_ro", "status_ro"}, type : {VIRTIO_BLK_T_IN},
     sec : {[lo |-> 0, top |-> 0]}, len : {SectorSize}, val : {1}]

HasNext(d) == d.flags % 2 = 1

\* Descriptor i of the chain the guest driver writes for request r in slot
\* k: header, data buffer, status byte, each linked to the next.  Shape
\* "ok4" has a second data descriptor, for the second block of the buffer,
\* between the first and the status descriptor.  Shapes "in_ro" and
\* "status_ro" leave the WRITE flag off the data and the status descriptor.
\* In shape "cycle" the data descriptor links back to the header, in
\* "next_oor" the header links to an index outside the table.
GuestDesc(r, k, i) ==
    LET h == HeadOf(k)
    IN  CASE i = h ->
               [addr |-> CASE r.shape = "hdr_oom" -> GuestMemSize
                           [] r.shape = "hdr_tail" -> GuestMemSize - 8
                           [] OTHER -> HdrAddr(k),
                len |-> 16,
                flags |-> IF r.shape = "hdr_only" THEN 0 ELSE VRING_DESC_F_NEXT,
                next |-> CASE r.shape = "hdr_only" -> 0
                           [] r.shape = "next_oor" -> QueueSize + 7
                           [] OTHER -> h + 1]
          [] i = h + 1 /\ r.shape \notin {"hdr_only", "next_oor"} ->
               [addr |-> IF r.shape = "data_oom" THEN GuestMemSize ELSE DataAddr(k),
                len |-> r.len,
                flags |-> (IF r.type = VIRTIO_BLK_T_IN /\ r.shape # "in_ro"
                           THEN VRING_DESC_F_WRITE ELSE 0)
                          + (IF r.shape = "no_status" THEN 0 ELSE VRING_DESC_F_NEXT),
                next |-> CASE r.shape = "no_status" -> 0
                           [] r.shape = "cycle" -> h
                           [] OTHER -> h + 2]
          [] i = h + 2 /\ r.shape = "ok4" ->
               [addr |-> DataAddr(k) + SectorSize, len |-> SectorSize,
                flags |-> VRING_DESC_F_WRITE + VRING_DESC_F_NEXT, next |-> h + 3]
          [] i = h + 3 /\ r.shape = "ok4" ->
               [addr |-> StatusAddr(k), len |-> 1, flags |-> VRING_DESC_F_WRITE,
                next |-> 0]
          [] i = h + 2 /\ r.shape \notin {"hdr_only", "no_status", "ok4", "cycle",
                                          "next_oor"} ->
               [addr |-> StatusAddr(k), len |-> 1,
                flags |-> IF r.shape = "status_ro" THEN 0 ELSE VRING_DESC_F_WRITE,
                next |-> 0]
          [] OTHER -> ZeroDesc

\* Byte the guest driver writes at address a for request r in slot k.
GuestByte(r, k, a) ==
    CASE a = HdrAddr(k) -> r.type
      [] a = HdrAddr(k) + 8 -> r.sec.lo
      [] a = HdrAddr(k) + 14 -> r.sec.top
      [] a = StatusAddr(k) -> StatusUnset
      [] OTHER -> BufPattern(r.val, a - DataAddr(k))

\* Guest addresses that belong to slot k.
InSlot(k, a) ==
    \/ (HdrAddr(k) <= a /\ a < HdrAddr(k) + 16)
    \/ a = StatusAddr(k)
    \/ (DataAddr(k) <= a /\ a < DataAddr(k) + BlocksPerBuffer * SectorSize)

\* The guest driver fills the descriptors and buffers of a new chain and
\* then publishes its head in the available ring (avail.idx + 1).
GuestPublish(r) ==
    /\ Len(chains) < MaxChains
    /\ UNCHANGED <<vmVars, hostVars, mmio>>
    /\ LET k == Len(chains)
           head == IF r.shape = "bad_head" THEN QueueSize + k ELSE HeadOf(k)
       IN  /\ descTable' = [i \in DOMAIN descTable |->
                               IF HeadOf(k) <= i /\ i < HeadOf(k) + DescPerChain
                               THEN GuestDesc(r, k, i) ELSE descTable[i]]
           /\ gmem' = [a \in DOMAIN gmem |->
                          IF InSlot(k, a) THEN GuestByte(r, k, a) ELSE gmem[a]]
           /\ availRing' = Append(availRing, head)
           /\ chains' = Append(chains, [req |-> r, slot |-> k, head |-> head])
           /\ fate' = [fate EXCEPT ![k + 1] = "avail"]
    /\ UNCHANGED <<disk, usedRing, usedIdx, queue, borrow, pc, loc, irqLog, snap>>

\* ------------------------------------------- virtio-queue operations
\* avail.idx as the driver publishes it (u16).
AvailIdx == (queue.start + Len(availRing)) % U16

\* Chains popped since the run the model follows began: the model keeps the
\* rings from the slot in use at that moment on.
Popped(q) == (q.next_avail - q.start) % U16
Used(q) == (q.next_used - q.start) % U16

\* Variant: the cursor does not move.
wrapping_add_Stuck(x) == x

\* Variant: the cursor is a plain integer.
wrapping_add_NoWrap(x) == x + 1

\* Wrapping<u16> += 1 of next_avail and next_used.
wrapping_add(x) == (x + 1) % U16

DescAt(tbl, i) == IF i \in DOMAIN tbl THEN tbl[i] ELSE ZeroDesc

\* DescriptorChain::next(): the descriptor at next_index, or None once the
\* chain has ended, the index is outside the table or ttl ran out.
ChainNext(tbl, it) ==
    IF it.ttl = 0 \/ it.next_index >= QueueSize
    THEN [some |-> FALSE, desc |-> ZeroDesc, it |-> it]
    ELSE LET d == DescAt(tbl, it.next_index)
         IN  [some |-> TRUE, desc |-> d,
              it |-> IF HasNext(d)
                     THEN [next_index |-> d.next, ttl |-> it.ttl - 1]
                     ELSE [it EXCEPT !.ttl = 0]]

\* Variant: the queue yields its first chain only.
CanPop_OnlyFirst(q) ==
    q.ready /\ q.next_avail = 0 /\ Len(availRing) > 0

\* Variant: a ready queue always yields a chain.
CanPop_NoEmptyCheck(q) == q.ready

\* Queue::pop_descriptor_chain(): None when the queue is not ready, the
\* available index is implausible or no new head is available.
CanPop(q) ==
    /\ q.ready
    /\ (AvailIdx - q.next_avail) % U16 <= QueueSize
    /\ q.next_avail # AvailIdx

\* The ring slot at next_avail; a slot the driver never wrote reads 0.
PoppedHead(q) ==
    IF (Popped(q) % QueueSize) + 1 \in DOMAIN availRing
    THEN availRing[(Popped(q) % QueueSize) + 1]
    ELSE 0

\* ------------------------------------------- request parsing (75-99)
ReadU32(m, a) == ReadLE(m, a, 3) + (2 ^ 24) * MemByte(m, a + 3)

\* The header descriptor, the request type and sector read through it, and
\* the data descriptor; ok = FALSE on each early return.
ParseRequest(tbl, m, head) ==
    LET r1 == ChainNext(tbl, [next_index |-> head, ttl |-> QueueSize])
        hdr == r1.desc
        r2 == ChainNext(tbl, r1.it)
        bad(w) == [ok |-> FALSE, why |-> w, type |-> 0, sector |-> ZeroSector,
                   data |-> ZeroDesc, it |-> r1.it]
    IN  IF ~r1.some THEN bad("no_header")
        ELSE IF ~ObjInMem(hdr.addr, 4) THEN bad("header_type_unreadable")
        ELSE IF ~ObjInMem(hdr.addr + 8, 8) THEN bad("header_sector_unreadable")
        ELSE IF ~r2.some THEN bad("no_data")
        ELSE [ok |-> TRUE, why |-> "", type |-> ReadU32(m, hdr.addr),
              sector |-> ReadU64(m, hdr.addr + 8), data |-> r2.desc, it |-> r2.it]

\* ------------------------------------------------ disk I/O (103-123)
\* sector * 512 exceeds u64 from sector = 2^55 on.
MulOverflows(sector) == sector.top >= 128

\* The (wrapped) product is below 2^30, so it can index the backing file.
OffsetFits(sector) == sector.mid = 0 /\ sector.top % 128 = 0 /\ sector.lo < 2 ^ 21

\* Variant: the sector number taken as a byte offset.
sector_offset_Unscaled(sector) == sector.lo

\* sector * 512 modulo 2^64, when OffsetFits.
sector_offset(sector) == sector.lo * SectorSize

\* disk_img[off .. off + len] is a valid range of the backing file.
DiskRangeOk(off, len) == off + len <= DiskLen

\* Bytes that write_slice / read_slice transfer at guest address a.
Transferred(a, len) == IF a >= GuestMemSize THEN 0 ELSE Min(len, GuestMemSize - a)

\* write_slice / read_slice return Ok: the whole buffer is in guest memory.
SliceOk(a, len) == a < GuestMemSize /\ Transferred(a, len) = len

\* Variant: the slice taken one byte late.
CopyDiskToGuest_Shifted(m, d, off, a, len) ==
    [x \in DOMAIN m |->
        IF a <= x /\ x < a + Transferred(a, len) THEN MemByte(d, off + (x - a) + 1) ELSE m[x]]

\* memory.write_slice(&disk_img[off .. off + len], a)
CopyDiskToGuest(m, d, off, a, len) ==
    [x \in DOMAIN m |->
        IF a <= x /\ x < a + Transferred(a, len) THEN MemByte(d, off + (x - a)) ELSE m[x]]

\* Variant: one sector more than the buffer is copied.
CopyGuestToDisk_TooLong(d, m, a, off, len) ==
    [o \in DOMAIN d |->
        IF off <= o /\ o < off + len + SectorSize THEN MemByte(m, a + (o - off)) ELSE d[o]]

\* disk_img[off .. off + len].copy_from_slice(&buffer), buffer read at a
CopyGuestToDisk(d, m, a, off, len) ==
    [o \in DOMAIN d |->
        IF off <= o /\ o < off + len THEN MemByte(m, a + (o - off)) ELSE d[o]]

Outcome(res, why, m, d) == [res |-> res, why |-> why, gmem |-> m, disk |-> d]

\* What the match on request_type does.  A debug build panics where the
\* multiplication overflows and a release build wraps: both are outcomes.
IoOutcomes(type, sector, data, m, d) ==
    IF type \notin {VIRTIO_BLK_T_IN, VIRTIO_BLK_T_OUT}
    THEN {Outcome("ok", "", m, d)}
    ELSE
      (IF MulOverflows(sector) THEN {Outcome("panic", "multiply_overflow", m, d)} ELSE {})
      \cup
      {IF type = VIRTIO_BLK_T_IN
       THEN IF ~OffsetFits(sector) \/ ~DiskRangeOk(sector_offset(sector), data.len)
            THEN Outcome("panic", "slice_index", m, d)
            ELSE IF SliceOk(data.addr, data.len)
                 THEN Outcome("ok", "",
                        CopyDiskToGuest(m, d, sector_offset(sector), data.addr, data.len), d)
                 ELSE Outcome("drop", "write_slice",
                        CopyDiskToGuest(m, d, sector_offset(sector), data.addr, data.len), d)
       ELSE IF ~SliceOk(data.addr, data.len)
            THEN Outcome("drop", "read_slice", m, d)
            ELSE IF ~OffsetFits(sector) \/ ~DiskRangeOk(sector_offset(sector), data.len)
                 THEN Outcome("panic", "slice_index", m, d)
                 ELSE Outcome("ok", "", m,
                        CopyGuestToDisk(d, m, data.addr, sector_offset(sector), data.len))}

\* Variant: request types without an arm reported as unsupported.
StatusByte_Unsupp(type) == IF type \in {VIRTIO_BLK_T_IN, VIRTIO_BLK_T_OUT} THEN 0 ELSE 2

\* The status byte the device reports (131: write_obj(0u8, ...)).
StatusByte(type) == 0

\* Queue::needs_notification(): EVENT_IDX is never enabled on this queue
\* (nothing calls set_event_idx), so every used element asks for an interrupt.
needs_notification(q) == TRUE

\* ------------------------------------------------------- RefCell
\* borrow_mut() of a RefCell that thread t does not hold.  The borrow flag is
\* a plain Cell: checked against a second thread it is a data race, and the
\* second thread either sees the flag (BorrowMutError panic) or does not.
BorrowOutcomes(cells, t) ==
    IF \A c \in cells : borrow[c] = {} THEN {"ok"} ELSE {"panic", "race"}

Acquire(cells, t) ==
    [c \in DOMAIN borrow |-> IF c \in cells THEN borrow[c] \cup {t} ELSE borrow[c]]

Release(t) == [c \in DOMAIN borrow |-> borrow[c] \ {t}]

\* ------------------------------------------------------------ run_vm
NoRet == [ok |-> FALSE, kind |-> "none", cpu |-> 0, what |-> ""]
NoArg == [mega_bytes |-> [hi |-> 0, lo |-> 0], cpu_cores_count |-> 0]
VmOff ==
    [pc |-> "off", backend |-> "none", arg |-> NoArg, cores |-> 0,
     memory_size |-> ZeroSector, step |-> 0, k |-> 0, ret |-> NoRet,
     memory |-> "none", partition |-> "none", deletes |-> 0, called |-> {}]
NoVcpu == [st |-> "none", exit |-> "", res |-> "none"]

\* VmSetup::new: 0 or 1 cores become 2.
VmSetupCores(n) == IF n = 0 \/ n = 1 THEN 2 ELSE n

\* Variant: usize of 32 bits.
MulMiB_Usize32(mb) ==
    [lo |-> (mb.lo % 16) * (2 ^ 20), mid |-> (mb.lo \div 16) % 256, top |-> 0]

\* 1024 * 1024 * mega_bytes as usize (usize of 64 bits, as on every host the
\* three hypervisors run on), for a u32 mega_bytes = hi * 2^16 + lo.  The
\* product is kept in the limbs of a u64: lo + mid * 2^24 + top * 2^48.
MulMiB(mb) ==
    [lo |-> (mb.lo % 16) * (2 ^ 20),
     mid |-> (mb.lo \div 16) + (mb.hi % 4096) * 4096,
     top |-> (mb.hi \div 4096) % U16]

\* The vCPU ids a VmSetup of the model can ask for.
VcpuIds == 0 .. (VmSetupCores(MaxCores) - 1)

\* ---------------------------------------------------- register log
\* The register accesses are logged only in SpecMmio (traced); `flip`
\* tells two equal accesses in a row apart.
NoMmio == [traced |-> FALSE, flip |-> FALSE, op |-> "none", offset |-> 0, value |-> 0]

Access(m, op, offset, value) ==
    IF m.traced
    THEN [traced |-> TRUE, flip |-> ~m.flip, op |-> op, offset |-> offset, value |-> value]
    ELSE m

\* No download_linux_lts_image call made yet, in an empty directory.
NoImg == [dir |-> {}, dist |-> "none", present |-> FALSE, requested |-> FALSE,
          ret |-> "none"]

\* ------------------------------------- VirtioBlockDevice::new (18-43)
\* Guest memory is a set of regions [lo, hi), as GuestMemoryMmap::from_ranges
\* builds it; the tests use the one region (0, 0x10000).
TestMemory == {[lo |-> 0, hi |-> GuestMemSize]}

\* GuestMemory::address_in_range.
address_in_range(mem, a) == \E r \in mem : r.lo <= a /\ a < r.hi

\* Bytes of each ring of a queue of QueueSize descriptors.
DescTableSize == 16 * QueueSize
AvailRingSize == 6 + 2 * QueueSize
UsedRingSize == 6 + 8 * QueueSize

Rings ==
    {[base |-> DescTableAddr, size |-> DescTableSize],
     [base |-> AvailRingAddr, size |-> AvailRingSize],
     [base |-> UsedRingAddr, size |-> UsedRingSize]}

\* Variant: a ring must start and end in guest memory.
is_valid_BothEnds(mem) ==
    \A ring \in Rings : /\ address_in_range(mem, ring.base)
                        /\ address_in_range(mem, ring.base + ring.size)

\* queue.is_valid(&mem) (32) on the queue `new` has just set up (ready, size
\* 1024, the three addresses): Queue::is_valid tests, for each ring, that the
\* address base + size is an address of guest memory.
is_valid(mem) ==
    \A ring \in Rings : address_in_range(mem, ring.base + ring.size)

NoCtor == [mem |-> {}, ret |-> "none"]

\* ------------------------------------------------------------ Init
\* The state VirtioBlockDevice::new leaves: queue ready with its cursors at 0,
\* guest memory zeroed, nothing borrowed.
InitWith(traced, made, start) ==
    /\ gmem = [a \in ModelledAddrs |-> 0]
    /\ disk = [o \in ModelledDiskOffs |-> DiskPattern(o)]
    /\ descTable = [i \in 0 .. (DescPerChain * MaxChains - 1) |-> ZeroDesc]
    /\ availRing = <<>>
    /\ usedRing = <<>>
    /\ usedIdx = start
    /\ queue = [ready |-> TRUE, next_avail |-> start, next_used |-> start,
                start |-> start]
    /\ borrow = [c \in {"mem", "queue", "disk_image"} |-> {}]
    /\ pc = [t \in AllThreads |-> "idle"]
    /\ loc = [t \in AllThreads |-> NoLoc]
    /\ irqLog = <<>>
    /\ chains = <<>>
    /\ fate = [c \in 1 .. MaxChains |-> "none"]
    /\ snap = [c \in 1 .. MaxChains |-> NoSnap]
    /\ vm = VmOff
    /\ vcpu = [i \in VcpuIds |-> NoVcpu]
    /\ faultLog = <<>>
    /\ mmio = [NoMmio EXCEPT !.traced = traced]
    /\ img = NoImg
    /\ ctor = made

Init == InitWith(FALSE, [mem |-> TestMemory, ret |-> "ok"], 0)

\* --------------------------------------------------- device actions
\* Variant: the interrupt raised before the used ring is updated.
StepAfter_IrqFirst(p) ==
    CASE p = "io" -> "status"
      [] p = "status" -> "notify"
      [] p = "notify" -> "add_used"
      [] p = "add_used" -> "store_idx"
      [] OTHER -> "pop"

\* Variant: one chain per notify.
StepAfter_OnePerNotify(p) ==
    CASE p = "io" -> "status"
      [] p = "status" -> "add_used"
      [] p = "add_used" -> "store_idx"
      [] p = "store_idx" -> "notify"
      [] OTHER -> "return"

\* Variant: the used ring updated before the status byte is written.
StepAfter_UsedFirst(p) ==
    CASE p = "io" -> "add_used"
      [] p = "add_used" -> "store_idx"
      [] p = "store_idx" -> "status"
      [] p = "status" -> "notify"
      [] OTHER -> "pop"

\* The order of the steps of one loop iteration after the request is parsed
\* (103-148): data transfer, status byte, add_used (element, then index),
\* interrupt, next iteration.
StepAfter(p) ==
    CASE p = "io" -> "status"
      [] p = "status" -> "add_used"
      [] p = "add_used" -> "store_idx"
      [] p = "store_idx" -> "notify"
      [] OTHER -> "pop"

\* Variant: a rejected chain still raises the interrupt.
DropTarget_Notify == "notify"

\* Variant: a rejected chain falls through to add_used.
DropTarget_Publish == "add_used"

\* Each early `return` inside the loop leaves process_descriptor_chain at
\* once: nothing is published for the chain.
DropTarget == "return"

\* disk_img is dropped at the end of the loop body.
BorrowAfter(p, t) ==
    IF StepAfter(p) = "pop"
    THEN [c \in DOMAIN borrow |-> IF c = "disk_image" THEN borrow[c] \ {t} ELSE borrow[c]]
    ELSE borrow

MmioOffsets == {0, VIRTIO_MMIO_QUEUE_NOTIFY, 112}

\* Variant: every register write kicks the queue.
MmioWriteDispatch_Any(offset) == "process"

\* The branch of write_mmio (57-63).
MmioWriteDispatch(offset) ==
    IF offset = VIRTIO_MMIO_QUEUE_NOTIFY THEN "process" ELSE "ignore"

\* write_mmio(offset) up to the ready check of process_descriptor_chain
\* (56-71): other offsets are ignored; QUEUE_NOTIFY borrows mem and queue.
write_mmio(t, offset) ==
    /\ pc[t] = "idle"
    /\ UNCHANGED <<vmVars, hostVars>>
    /\ mmio' = Access(mmio, "write", offset, 0)
    /\ IF MmioWriteDispatch(offset) = "ignore"
       THEN UNCHANGED <<borrow, pc, loc>>
       ELSE \E o \in BorrowOutcomes({"mem", "queue"}, t) :
              IF o = "panic"
              THEN /\ pc' = [pc EXCEPT ![t] = "panicked"]
                   /\ loc' = [loc EXCEPT ![t].why = "BorrowMutError"]
                   /\ UNCHANGED borrow
              ELSE IF ~queue.ready
                   THEN UNCHANGED <<borrow, pc, loc>>
                   ELSE /\ borrow' = Acquire({"mem", "queue"}, t)
                        /\ pc' = [pc EXCEPT ![t] = "pop"]
                        /\ UNCHANGED loc
    /\ UNCHANGED <<gmem, disk, descTable, availRing, usedRing, usedIdx, queue,
                   irqLog, chains, fate, snap>>

\* que.pop_descriptor_chain(&*memory) (72-73): the loop ends, and the
\* function returns, when there is no chain to pop.
pop_descriptor_chain(t) ==
    /\ pc[t] = "pop"
    /\ UNCHANGED <<vmVars, hostVars, mmio>>
    /\ IF CanPop(queue)
       THEN LET cur == Popped(queue) + 1
            IN  /\ queue' = [queue EXCEPT !.next_avail = wrapping_add(@)]
                /\ loc' = [loc EXCEPT ![t] =
                             [NoLoc EXCEPT !.cur = cur, !.head = PoppedHead(queue)]]
                /\ fate' = [fate EXCEPT ![cur] = "popped"]
                /\ snap' = [snap EXCEPT ![cur] = [disk |-> disk, usedIdx |-> usedIdx,
                                                  usedRing |-> usedRing]]
                /\ pc' = [pc EXCEPT ![t] = "parse"]
       ELSE /\ pc' = [pc EXCEPT ![t] = "return"]
            /\ loc' = [loc EXCEPT ![t] = NoLoc]
            /\ UNCHANGED <<queue, fate, snap>>
    /\ UNCHANGED <<gmem, disk, descTable, availRing, usedRing, usedIdx, borrow,
                   irqLog, chains>>

\* Header and data descriptor (75-99), then disk_image.borrow_mut() (101).
parse_request(t) ==
    /\ pc[t] = "parse"
    /\ UNCHANGED <<vmVars, hostVars, mmio>>
    /\ LET p == ParseRequest(descTable, gmem, loc[t].head)
       IN  IF ~p.ok
           THEN /\ pc' = [pc EXCEPT ![t] = DropTarget]
                /\ loc' = [loc EXCEPT ![t].why = p.why]
                /\ fate' = [fate EXCEPT ![loc[t].cur] = "dropped"]
                /\ UNCHANGED borrow
           ELSE \E o \in BorrowOutcomes({"disk_image"}, t) :
                  IF o = "panic"
                  THEN /\ pc' = [pc EXCEPT ![t] = "panicked"]
                       /\ loc' = [loc EXCEPT ![t].why = "BorrowMutError"]
                       /\ fate' = [fate EXCEPT ![loc[t].cur] = "panicked"]
                       /\ borrow' = Release(t)
                  ELSE /\ pc' = [pc EXCEPT ![t] = "io"]
                       /\ loc' = [loc EXCEPT ![t].type = p.type, ![t].sector = p.sector,
                                             ![t].data = p.data, ![t].it = p.it]
                       /\ borrow' = Acquire({"disk_image"}, t)
                       /\ UNCHANGED fate
    /\ UNCHANGED <<gmem, disk, descTable, availRing, usedRing, usedIdx, queue,
                   irqLog, chains, snap>>

\* The match on request_type (103-123).
transfer_data(t) ==
    /\ pc[t] = "io"
    /\ UNCHANGED <<vmVars, hostVars, mmio>>
    /\ \E o \in IoOutcomes(loc[t].type, loc[t].sector, loc[t].data, gmem, disk) :
         /\ gmem' = o.gmem
         /\ disk' = o.disk
         /\ loc' = [loc EXCEPT ![t].why = o.why]
         /\ pc' = [pc EXCEPT ![t] = CASE o.res = "ok" -> StepAfter("io")
                                      [] o.res = "drop" -> DropTarget
                                      [] OTHER -> "panicked"]
         /\ fate' = [fate EXCEPT ![loc[t].cur] =
                        CASE o.res = "ok" -> @
                          [] o.res = "drop" -> "dropped"
                          [] OTHER -> "panicked"]
         /\ borrow' = IF o.res = "panic" THEN Release(t) ELSE borrow
    /\ UNCHANGED <<descTable, availRing, usedRing, usedIdx, queue, irqLog, chains, snap>>

\* Status descriptor and status byte (125-133).
write_status(t) ==
    /\ pc[t] = "status"
    /\ UNCHANGED <<vmVars, hostVars, mmio>>
    /\ LET r3 == ChainNext(descTable, loc[t].it)
           why == IF ~r3.some THEN "no_status"
                  ELSE IF ~ObjInMem(r3.desc.addr, 1) THEN "status_unwritable"
                  ELSE ""
       IN  IF why # ""
           THEN /\ pc' = [pc EXCEPT ![t] = DropTarget]
                /\ loc' = [loc EXCEPT ![t].why = why]
                /\ fate' = [fate EXCEPT ![loc[t].cur] = "dropped"]
                /\ UNCHANGED gmem
           ELSE /\ gmem' = [a \in DOMAIN gmem |->
                              IF a = r3.desc.addr THEN StatusByte(loc[t].type) ELSE gmem[a]]
                /\ loc' = [loc EXCEPT ![t].status = r3.desc, ![t].it = r3.it]
                /\ pc' = [pc EXCEPT ![t] = StepAfter("status")]
                /\ UNCHANGED fate
    /\ borrow' = IF pc'[t] = "pop" THEN BorrowAfter("status", t) ELSE borrow
    /\ UNCHANGED <<disk, descTable, availRing, usedRing, usedIdx, queue, irqLog, chains,
                   snap>>

\* Variant: the used element is not in guest memory when the index is stored.
WriteUsedElem_Late(ring, slot, elem) == ring

\* add_used's write_obj of the used element (id, len) at ring slot `slot`.
WriteUsedElem(ring, slot, elem) ==
    IF slot > Len(ring) THEN Append(ring, elem) ELSE [ring EXCEPT ![slot] = elem]

\* que.add_used(&*memory, head_index, data_descriptor.len()) (135-137),
\* first half: the used element is written at next_used and next_used
\* advances.  QueueSync's lock keeps a second add_used out until the index
\* is stored.
add_used(t) ==
    /\ pc[t] = "add_used"
    /\ UNCHANGED <<vmVars, hostVars, mmio>>
    /\ \A u \in AllThreads : pc[u] # "store_idx"
    /\ IF loc[t].head >= QueueSize
       THEN /\ pc' = [pc EXCEPT ![t] = "return"]
            /\ loc' = [loc EXCEPT ![t].why = "InvalidDescriptorIndex"]
            /\ fate' = [fate EXCEPT ![loc[t].cur] = "dropped"]
            /\ UNCHANGED <<usedRing, queue>>
       ELSE LET slot == (Used(queue) % QueueSize) + 1
                elem == [id |-> loc[t].head, len |-> loc[t].data.len]
            IN  /\ usedRing' = WriteUsedElem(usedRing, slot, elem)
                /\ queue' = [queue EXCEPT !.next_used = wrapping_add(@)]
                /\ pc' = [pc EXCEPT ![t] = StepAfter("add_used")]
                /\ UNCHANGED <<loc, fate>>
    /\ UNCHANGED <<gmem, disk, descTable, availRing, usedIdx, borrow, irqLog, chains,
                   snap>>

\* add_used, second half: used.idx is stored (Release) after the element.
store_used_idx(t) ==
    /\ pc[t] = "store_idx"
    /\ UNCHANGED <<vmVars, hostVars, mmio>>
    /\ usedIdx' = queue.next_used
    /\ fate' = [fate EXCEPT ![loc[t].cur] = "published"]
    /\ pc' = [pc EXCEPT ![t] = StepAfter("store_idx")]
    /\ borrow' = BorrowAfter("store_idx", t)
    /\ UNCHANGED <<gmem, disk, descTable, availRing, usedRing, queue, loc, irqLog, chains,
                   snap>>

\* que.needs_notification and interrupt_controller.trigger() (139-148):
\* trigger() writes 1 to the irqfd.
trigger(t) ==
    /\ pc[t] = "notify"
    /\ UNCHANGED <<vmVars, hostVars, mmio>>
    /\ irqLog' = IF needs_notification(queue) THEN Append(irqLog, loc[t].cur) ELSE irqLog
    /\ pc' = [pc EXCEPT ![t] = StepAfter("notify")]
    /\ borrow' = BorrowAfter("notify", t)
    /\ UNCHANGED <<gmem, disk, descTable, availRing, usedRing, usedIdx, queue, loc,
                   chains, fate, snap>>

\* A return from process_descriptor_chain drops every RefMut it holds and
\* write_mmio returns to its caller.
return_to_caller(t) ==
    /\ pc[t] = "return"
    /\ UNCHANGED <<vmVars, hostVars, mmio>>
    /\ pc' = [pc EXCEPT ![t] = "idle"]
    /\ loc' = [loc EXCEPT ![t] = NoLoc]
    /\ borrow' = Release(t)
    /\ UNCHANGED <<gmem, disk, descTable, availRing, usedRing, usedIdx, queue,
                   irqLog, chains, fate, snap>>

\* Variant: the version register reads 1 (legacy).
read_mmio_Legacy(offset) ==
    CASE offset = 0 -> 1953655158
      [] offset = 4 -> 1
      [] offset = 8 -> 2
      [] offset = 12 -> 1431127377
      [] OTHER -> 0

\* read_mmio(offset) (45-54): 0x74726976, 2, 2, 0x554d4551, 0 and 0.
read_mmio(offset) ==
    CASE offset = 0 -> 1953655158
      [] offset = 4 -> 2
      [] offset = 8 -> 2
      [] offset = 12 -> 1431127377
      [] offset = 16 -> 0
      [] OTHER -> 0

ReadOffsets == {0, 4, 8, 12, 16, 256}

\* The vCPU thread reads a device register: read_mmio takes &self and
\* touches no RefCell.
mmio_read(t, offset) ==
    /\ pc[t] = "idle"
    /\ mmio.traced
    /\ mmio' = Access(mmio, "read", offset, read_mmio(offset))
    /\ UNCHANGED <<gmem, disk, descTable, availRing, usedRing, usedIdx, queue, borrow,
                   pc, loc, irqLog, chains, fate, snap, vmVars, hostVars>>

\* device.queue.borrow_mut().set_ready(b), as the tests do between calls.
set_ready(b) ==
    /\ \A t \in AllThreads : pc[t] \in {"idle", "panicked"}
    /\ UNCHANGED <<vmVars, hostVars, mmio>>
    /\ queue.ready # b
    /\ queue' = [queue EXCEPT !.ready = b]
    /\ UNCHANGED <<gmem, disk, descTable, availRing, usedRing, usedIdx, borrow,
                   pc, loc, irqLog, chains, fate, snap>>

DeviceStep(t) ==
    \/ \E off \in MmioOffsets : write_mmio(t, off)
    \/ pop_descriptor_chain(t)
    \/ parse_request(t)
    \/ transfer_data(t)
    \/ write_status(t)
    \/ add_used(t)
    \/ store_used_idx(t)
    \/ trigger(t)
    \/ return_to_caller(t)

\* One vCPU thread drives the device.
Next ==
    \/ \E r \in Requests : GuestPublish(r)
    \/ DeviceStep(1)
    \/ \E b \in BOOLEAN : set_ready(b)

Spec == Init /\ [][Next]_vars

\* The guest keeps notifying: whenever the vCPU thread can take a step of
\* write_mmio / process_descriptor_chain it eventually does.
LiveRequests ==
    {[shape |-> "ok3", type |-> VIRTIO_BLK_T_IN, sec |-> [lo |-> 0, top |-> 0],
      len |-> SectorSize, val |-> 1],
     [shape |-> "ok3", type |-> VIRTIO_BLK_T_OUT, sec |-> [lo |-> 1, top |-> 0],
      len |-> SectorSize, val |-> 2],
     [shape |-> "ok3", type |-> VIRTIO_BLK_T_IN, sec |-> [lo |-> NumSectors, top |-> 0],
      len |-> SectorSize, val |-> 1],
     [shape |-> "hdr_only", type |-> VIRTIO_BLK_T_IN, sec |-> [lo |-> 0, top |-> 0],
      len |-> SectorSize, val |-> 1],
     [shape |-> "no_status", type |-> VIRTIO_BLK_T_OUT, sec |-> [lo |-> 0, top |-> 0],
      len |-> SectorSize, val |-> 1],
     [shape |-> "data_oom", type |-> VIRTIO_BLK_T_IN, sec |-> [lo |-> 0, top |-> 0],
      len |-> SectorSize, val |-> 1],
     [shape |-> "cycle", type |-> VIRTIO_BLK_T_IN, sec |-> [lo |-> 0, top |-> 0],
      len |-> SectorSize, val |-> 1],
     [shape |-> "next_oor", type |-> VIRTIO_BLK_T_IN, sec |-> [lo |-> 0, top |-> 0],
      len |-> SectorSize, val |-> 1]}

NextLive ==
    \/ \E r \in LiveRequests : GuestPublish(r)
    \/ DeviceStep(1)

SpecLive == Init /\ [][NextLive]_vars /\ WF_vars(DeviceStep(1))

\* The same device after it has served `start` chains: the cursors and the
\* two ring indices stand at start, about to wrap.
Starts == {0, U16 - 2, U16 - 1}

InitWrap == \E start \in Starts : InitWith(FALSE, [mem |-> TestMemory, ret |-> "ok"], start)

NextWrap ==
    \/ \E r \in LiveRequests : GuestPublish(r)
    \/ DeviceStep(1)

SpecWrap == InitWrap /\ [][NextWrap]_vars

\* Two vCPU threads write QUEUE_NOTIFY to the same device.
ConcRequests ==
    {[shape |-> "ok3", type |-> VIRTIO_BLK_T_IN, sec |-> [lo |-> 0, top |-> 0],
      len |-> SectorSize, val |-> 1],
     [shape |-> "ok3", type |-> VIRTIO_BLK_T_OUT, sec |-> [lo |-> 1, top |-> 0],
      len |-> SectorSize, val |-> 2]}

NextConc ==
    \/ \E r \in ConcRequests : GuestPublish(r)
    \/ \E t \in AllThreads : DeviceStep(t)

SpecConc == Init /\ [][NextConc]_vars

\* One vCPU thread reads and writes the registers of the device; every
\* access is logged.
InitMmio == InitWith(TRUE, [mem |-> TestMemory, ret |-> "ok"], 0)

NextMmio ==
    \/ \E r \in ConcRequests : GuestPublish(r)
    \/ DeviceStep(1)
    \/ \E offset \in ReadOffsets : mmio_read(1, offset)
    \/ \E b \in BOOLEAN : set_ready(b)

SpecMmio == InitMmio /\ [][NextMmio]_vars

\* ----------------------------------------- VirtioBlockDevice::new
\* Region boundaries of the guest memories tried.
MemBounds == {0, 4096, 8192, 10246, 12288, 20480, 20486, 20487, 24576, 65536}
Regions == {r \in [lo : MemBounds, hi : MemBounds] : r.lo < r.hi}
Memories ==
    {{r} : r \in Regions}
    \cup {{p[1], p[2]} : p \in {q \in Regions \X Regions : q[1].hi <= q[2].lo}}

\* VirtioBlockDevice::new(mem, ..): Err("queue is invalid") unless
\* queue.is_valid(&mem), else the device.
new(mem) ==
    /\ ctor.ret = "none"
    /\ ctor' = [mem |-> mem, ret |-> IF is_valid(mem) THEN "ok" ELSE "queue is invalid"]
    /\ UNCHANGED <<devVars, vmVars, img>>

InitNew == InitWith(FALSE, NoCtor, 0)

NextNew == \E mem \in Memories : new(mem)

SpecNew == InitNew /\ [][NextNew]_vars

\* ------------------------------------------ utils/img_setup.rs
\* A file name is kept as the distribution name it contains (or another
\* word), the rest of its stem and its extension.
Distributions == {"debian", "ubuntu", "mint"}

\* distribution_img_extension (46-52).
distribution_img_extension(d) ==
    CASE d = "debian" -> ".qcow2"
      [] d = "ubuntu" -> ".img"
      [] OTHER -> ".iso"

\* The files the tests of img_setup.rs put in the directory.
EnvFiles ==
    {[dist |-> "ubuntu", rest |-> "-lts", ext |-> ".img"],
     [dist |-> "ubuntu", rest |-> "-lts", ext |-> ".iso"],
     [dist |-> "debian", rest |-> "-server", ext |-> ".qcow2"],
     [dist |-> "debian", rest |-> "-server", ext |-> ".img"],
     [dist |-> "mint", rest |-> "-cinnamon", ext |-> ".iso"],
     [dist |-> "Ubuntu", rest |-> "-lts", ext |-> ".img"],
     [dist |-> "some-random", rest |-> "-file", ext |-> ".txt"]}

\* check_if_linux_distribution_img_present_in_current_dir (73-91): Ok iff a
\* file name contains the distribution's name and ends with its extension.
check_if_linux_distribution_img_present_in_current_dir(dir, d) ==
    \E f \in dir : f.dist = d /\ f.ext = distribution_img_extension(d)

\* env::consts::ARCH values.
Architectures == {"x86", "x86_64", "arm", "aarch64", "riscv64"}

\* get_url_to_linux_distribution_download (55-70) returns Ok.
UrlKnown(d, arch) ==
    \/ arch = "x86_64"
    \/ arch = "aarch64" /\ d # "mint"

\* How far the transfer gets once the URL is known.
Transfers == {"send_failed", "create_failed", "copy_failed", "ok"}

\* download_linux_lts_image (94-129): the download is in the Ok arm of the
\* presence check; the Err arm returns the check's error.
download_linux_lts_image(d, arch, transfer) ==
    LET present == check_if_linux_distribution_img_present_in_current_dir(img.dir, d)
        filename == [dist |-> d, rest |-> "-lts", ext |-> ".img"]
        requested == present /\ UrlKnown(d, arch)
        created == requested /\ transfer \in {"copy_failed", "ok"}
    IN  /\ img' = [dir |-> IF created THEN img.dir \cup {filename} ELSE img.dir,
                   dist |-> d, present |-> present, requested |-> requested,
                   ret |-> IF requested /\ transfer = "ok" THEN "ok" ELSE "err"]
        /\ UNCHANGED <<devVars, vmVars, ctor>>

\* Someone puts a file in the current directory.
create_file(f) ==
    /\ f \notin img.dir
    /\ img' = [img EXCEPT !.dir = @ \cup {f}]
    /\ UNCHANGED <<devVars, vmVars, ctor>>

NextImg ==
    \/ \E f \in EnvFiles : create_file(f)
    \/ \E d \in Distributions, arch \in Architectures, transfer \in Transfers :
          download_linux_lts_image(d, arch, transfer)

SpecImg == Init /\ [][NextImg]_vars

\* ------------------------------------------ run_vm (vm_setup/*.rs)
\* run_vm of the three backends: KVM (linux_setup.rs), HVF (macos_setup.rs)
\* and WHP (windows_setup.rs).  The top-level task constructs the VM, spawns
\* one blocking task per vCPU, awaits the join handles in spawn order and
\* returns; its locals are dropped when it returns.
Backends == {"kvm", "hvf", "whp"}

\* The fallible steps of the top-level task before the spawn loop, in order.
ConstructSteps(b) ==
    CASE b = "kvm" -> <<"Kvm::new", "create_vm", "from_ranges", "get_host_address",
                        "set_memory_region">>
      [] b = "hvf" -> <<"VirtualMachine::new", "Mapping::new", "mem.map">>
      [] OTHER -> <<"create_partition", "set_processor_count_property",
                    "setup_partition", "allocate_partition_memory">>

\* What the top-level task does per vCPU before it spawns the blocking task,
\* and the ways it can fail there.
SpawnOutcomes(b) ==
    IF b = "kvm" THEN {"ok", "create_vcpu", "get_regs", "set_regs"} ELSE {"ok"}

\* What the blocking task does before it first enters the hypervisor, and the
\* ways it can fail there.
StartOutcomes(b) ==
    CASE b = "kvm" -> {"ok"}
      [] b = "hvf" -> {"ok", "Vcpu::new", "set_trap_debug_exceptions",
                       "set_trap_debug_reg_accesses", "set_reg"}
      [] OTHER -> {"ok", "create_vcpu"}

\* The ways the hypervisor's run call returns.
Exits(b) ==
    CASE b = "kvm" -> {"RunError", "Hlt", "IoIn", "IoOut", "MmioRead", "MmioWrite",
                       "Shutdown", "InternalError", "SystemEvent", "Other"}
      [] b = "hvf" -> {"RunError", "CANCELED", "EXCEPTION_0D", "EXCEPTION_15",
                       "EXCEPTION_other", "VTIMER_ACTIVATED", "UNKNOWN"}
      [] OTHER -> {"RunError", "X64Halt", "None", "MemoryAccess", "X64IoPortAccess",
                   "X64MsrAccess", "X64Cpuid", "Exception", "UnsupportedFeature", "Other"}

\* The exits a guest access to a device register produces.
MmioExits(b) ==
    CASE b = "kvm" -> {"MmioRead", "MmioWrite"}
      [] b = "hvf" -> {"EXCEPTION_15"}
      [] OTHER -> {"MemoryAccess"}

\* The Result the blocking task returns for an exit.  Every arm of every
\* backend is a `return`.  The WHP arms name WHvRunVpExitReason* constants
\* that windows_setup.rs does not import: where the names resolve to the
\* constants only Halt is Ok, where they do not the first arm is a binding
\* that takes every exit as Halt.
Classify(b, e) ==
    CASE e = "RunError" -> {"err"}
      [] b = "kvm" -> IF e \in {"Hlt", "Shutdown"} THEN {"ok"} ELSE {"err"}
      [] b = "hvf" -> IF e = "CANCELED" THEN {"ok"} ELSE {"err"}
      [] OTHER -> IF e = "X64Halt" THEN {"ok"} ELSE {"ok", "err"}

\* Whether the Err string returned for outcome e is formatted with the vCPU
\* id.  KVM's catch-all arm prints the exit reason only; HVF's failures
\* before vcpu.run() return fixed strings.
MessageHasVcpuId(b, e) ==
    CASE b = "kvm" -> e # "Other"
      [] b = "hvf" -> e \notin {"Vcpu::new", "set_trap_debug_exceptions",
                                "set_trap_debug_reg_accesses", "set_reg"}
      [] OTHER -> TRUE

\* Variant: no upper limit on the processor count.
ProcessorCountValid_NoUpper(n) == n # 0

\* set_processor_count_property: 0 and more than 64 processors are refused
\* before WHvSetPartitionProperty is called.
ProcessorCountValid(n) == ~(n = 0 \/ n > 64)

\* Whether a construction step gets as far as its call into the hypervisor.
StepCalls(v, name) ==
    name = "set_processor_count_property" => ProcessorCountValid(v.cores)

\* The arguments of VmSetup::new in the model: mega_bytes as two 16-bit
\* halves, cpu_cores_count up to MaxCores and, on WHP, one count above its
\* limit.
MegaBytes ==
    {[hi |-> 0, lo |-> 0], [hi |-> 0, lo |-> 4], [hi |-> 0, lo |-> 4096],
     [hi |-> U16 - 1, lo |-> U16 - 1]}
CoreCounts == (0 .. MaxCores) \cup {65}

\* Variant: the drop of a Partition deletes the handle twice.
DeleteCalls_Twice(partition) == IF partition = "live" THEN 2 ELSE 0

\* impl Drop for Partition: one delete_partition per owned handle.
DeleteCalls(partition) == IF partition = "live" THEN 1 ELSE 0

\* run_vm returns `ret`: its locals are dropped.  The GuestMemoryMmap (KVM)
\* and the Mapping (HVF) unmap guest memory, the Partition (WHP) deletes
\* the partition; the memory WHP got from VirtualAlloc is never freed.
Return(v, ret) ==
    [v EXCEPT !.pc = "returned", !.ret = ret,
              !.memory = IF @ = "live" /\ v.backend # "whp" THEN "released" ELSE @,
              !.partition = IF @ = "live" THEN "deleted" ELSE @,
              !.deletes = @ + DeleteCalls(v.partition)]

ErrRet(kind, cpu, what) == [ok |-> FALSE, kind |-> kind, cpu |-> cpu, what |-> what]
OkRet == [ok |-> TRUE, kind |-> "ok", cpu |-> 0, what |-> ""]

\* run_vm(VmSetup::new(mb, n)) is called on backend b.
start_vm(b, mb, n) ==
    /\ vm.pc = "off"
    /\ n > MaxCores => b = "whp"
    /\ vm' = [vm EXCEPT !.pc = "construct", !.backend = b,
                        !.arg = [mega_bytes |-> mb, cpu_cores_count |-> n],
                        !.cores = VmSetupCores(n), !.memory_size = MulMiB(mb),
                        !.step = 1]
    /\ UNCHANGED <<vcpu, faultLog, devVars, hostVars>>

\* One construction step of the top-level task; a failure returns Err.
construct(succeeds) ==
    /\ vm.pc = "construct"
    /\ succeeds => StepCalls(vm, ConstructSteps(vm.backend)[vm.step])
    /\ LET steps == ConstructSteps(vm.backend)
           name == steps[vm.step]
           got == [vm EXCEPT
                     !.called = IF StepCalls(vm, name) THEN @ \cup {name} ELSE @,
                     !.memory = IF name \in {"from_ranges", "Mapping::new",
                                             "allocate_partition_memory"}
                                THEN "live" ELSE @,
                     !.partition = IF name = "create_partition" THEN "live" ELSE @]
       IN  vm' = IF ~succeeds
                 THEN Return([vm EXCEPT !.called = got.called],
                             ErrRet("construct", 0, name))
                 ELSE IF vm.step = Len(steps)
                      THEN [got EXCEPT !.pc = "spawn", !.k = 0]
                      ELSE [got EXCEPT !.step = @ + 1]
    /\ UNCHANGED <<vcpu, faultLog, devVars, hostVars>>

\* One iteration of the spawn loop: KVM creates the vCPU and sets its
\* registers on the top-level task and returns Err when that fails; then the
\* blocking task is spawned and its handle pushed.
spawn_vcpu(o) ==
    /\ vm.pc = "spawn"
    /\ o \in SpawnOutcomes(vm.backend)
    /\ IF o # "ok"
       THEN /\ vm' = Return(vm, ErrRet("construct", vm.k, o))
            /\ UNCHANGED vcpu
       ELSE /\ vcpu' = [vcpu EXCEPT ![vm.k].st = "spawned"]
            /\ vm' = IF vm.k + 1 = vm.cores
                     THEN [vm EXCEPT !.pc = "join", !.k = 0]
                     ELSE [vm EXCEPT !.k = @ + 1]
    /\ UNCHANGED <<faultLog, devVars, hostVars>>

\* The blocking task of vCPU i starts: HVF creates and configures the vCPU
\* here, WHP creates it; then the task enters the hypervisor's run call.
vcpu_start(i, o) ==
    /\ vcpu[i].st = "spawned"
    /\ o \in StartOutcomes(vm.backend)
    /\ IF o = "ok"
       THEN /\ vcpu' = [vcpu EXCEPT ![i].st = "running"]
            /\ UNCHANGED faultLog
       ELSE /\ vcpu' = [vcpu EXCEPT ![i] = [st |-> "done", exit |-> o, res |-> "err"]]
            /\ faultLog' = Append(faultLog, i)
    /\ UNCHANGED <<vm, devVars, hostVars>>

\* Variant: after a device-register exit the runner calls run again.
AfterExit_Resume(b, e) == IF e \in MmioExits(b) THEN "running" ELSE "done"

\* Where the blocking task is after it has handled exit e: every arm of the
\* exit match, and the run-error arm, is a `return`.
AfterExit(b, e) == "done"

\* The run call of vCPU i returns with exit e and the task returns its Result.
vcpu_exit(i, e) ==
    /\ vcpu[i].st = "running"
    /\ e \in Exits(vm.backend)
    /\ \E res \in Classify(vm.backend, e) :
         /\ vcpu' = [vcpu EXCEPT ![i] = [st |-> AfterExit(vm.backend, e), exit |-> e,
                                         res |-> res]]
         /\ faultLog' = IF res = "err" THEN Append(faultLog, i) ELSE faultLog
    /\ UNCHANGED <<vm, devVars, hostVars>>

\* What the join loop does with the Result of a finished task: KVM and WHP
\* return the task's Err; HVF looks at the JoinError only.
JoinReturnsErr(b, res) == b # "hvf" /\ res = "err"

\* handler.await of the join loop completes for the next handle, in spawn
\* order; after the last one run_vm returns Ok(()).
join_next ==
    /\ vm.pc = "join"
    /\ vcpu[vm.k].st = "done"
    /\ vm' = IF JoinReturnsErr(vm.backend, vcpu[vm.k].res)
             THEN Return(vm, ErrRet("vcpu", vm.k, vcpu[vm.k].exit))
             ELSE IF vm.k + 1 = vm.cores
                  THEN Return(vm, OkRet)
                  ELSE [vm EXCEPT !.k = @ + 1]
    /\ UNCHANGED <<vcpu, faultLog, devVars, hostVars>>

NextVm ==
    \/ \E b \in Backends, mb \in MegaBytes, n \in CoreCounts : start_vm(b, mb, n)
    \/ \E succeeds \in BOOLEAN : construct(succeeds)
    \/ \E o \in UNION {SpawnOutcomes(b) : b \in Backends} : spawn_vcpu(o)
    \/ \E i \in VcpuIds, o \in UNION {StartOutcomes(b) : b \in Backends} : vcpu_start(i, o)
    \/ \E i \in VcpuIds, e \in UNION {Exits(b) : b \in Backends} : vcpu_exit(i, e)
    \/ join_next

SpecVm == Init /\ [][NextVm]_vars

\* Every run call returns and every task that can run does: the top-level
\* task and the blocking tasks are scheduled by the tokio runtime.
NextVmLive ==
    \/ \E b \in Backends, n \in CoreCounts : start_vm(b, [hi |-> 0, lo |-> 4], n)
    \/ \E succeeds \in BOOLEAN : construct(succeeds)
    \/ \E o \in UNION {SpawnOutcomes(b) : b \in Backends} : spawn_vcpu(o)
    \/ \E i \in VcpuIds, o \in UNION {StartOutcomes(b) : b \in Backends} : vcpu_start(i, o)
    \/ \E i \in VcpuIds, e \in UNION {Exits(b) : b \in Backends} : vcpu_exit(i, e)
    \/ join_next

SpecVmLive ==
    /\ Init
    /\ [][NextVmLive]_vars
    /\ WF_vars(\E succeeds \in BOOLEAN : construct(succeeds))
    /\ WF_vars(\E o \in UNION {SpawnOutcomes(b) : b \in Backends} : spawn_vcpu(o))
    /\ \A i \in VcpuIds :
          /\ WF_vars(\E o \in UNION {StartOutcomes(b) : b \in Backends} : vcpu_start(i, o))
          /\ WF_vars(\E e \in UNION {Exits(b) : b \in Backends} : vcpu_exit(i, e))
    /\ WF_vars(join_next)

\* ------------------------------------------------- claim vocabulary
Req(c) == chains[c].req
SlotOf(c) == chains[c].slot
Submitted == 1 .. Len(chains)
WellFormed(r) == r.shape = "ok3"
InRange(r) == r.sec.top = 0 /\ r.sec.lo * SectorSize + r.len <= DiskLen
Finished(c) == fate[c] \in {"dropped", "published", "panicked"}
\* No chain after c has been popped yet.
LastPopped(c) == queue.next_avail = c
StatusOf(c) == gmem[StatusAddr(SlotOf(c))]
\* The guest data buffer of chain c still holds what the driver put there.
BufferUntouched(c) ==
    \A a \in DataBytes(SlotOf(c)) :
        gmem[a] = BufPattern(Req(c).val, a - DataAddr(SlotOf(c)))
\* Chain c added exactly one used element (head, data.len) and nothing else.
UsedAdvancedByOne(c) ==
    /\ usedIdx = snap[c].usedIdx + 1
    /\ Len(usedRing) = usedIdx
    /\ usedRing[usedIdx] = [id |-> chains[c].head, len |-> Req(c).len]
    /\ SubSeq(usedRing, 1, usedIdx - 1) = snap[c].usedRing

Active(t) == pc[t] \notin {"idle", "panicked"}

\* -------------------------------------------------------------- C1
\* C1: whenever trigger() has been called for a chain, that chain's used
\* element and the used index covering it are already in guest memory: the
\* i-th interrupt finds used.idx >= i and ring element i = (head, len).
C1_UsedBeforeIrq ==
    \A i \in 1 .. Len(irqLog) :
        /\ usedIdx >= i
        /\ Len(usedRing) >= i
        /\ usedRing[i] = [id |-> chains[irqLog[i]].head, len |-> Req(irqLog[i]).len]

C1_Witness == Len(irqLog) = 2 /\ usedIdx = 2

\* -------------------------------------------------------------- C2
\* C2: the drainer of one device is a critical section guarded by a mutex:
\* at most one thread is inside process_descriptor_chain, and a thread that
\* notifies meanwhile waits, it does not fail.
C2_DrainerSerialized ==
    /\ Cardinality({t \in AllThreads : Active(t)}) <= 1
    /\ \A t \in AllThreads : ~(pc[t] = "panicked" /\ loc[t].why = "BorrowMutError")

\* -------------------------------------------------------------- C3
\* C3: a chain dropped as a protocol violation leaves the used ring alone:
\* no used element carries its head, and until another chain is popped the
\* used index and ring are what they were when it was popped.
C3_DroppedNotPublished ==
    \A c \in Submitted :
        fate[c] = "dropped" =>
            /\ \A i \in 1 .. Len(usedRing) : usedRing[i].id # chains[c].head
            /\ LastPopped(c) => (usedIdx = snap[c].usedIdx /\ usedRing = snap[c].usedRing)

C3_Witness ==
    \E c \in Submitted :
        /\ fate[c] = "dropped"
        /\ Req(c).shape = "data_oom"
        /\ usedIdx = 1

\* -------------------------------------------------------------- C4
\* C4: an IN or OUT request whose range ends past the backing file completes
\* with status 1, is published, and changes neither the data buffer nor the
\* backing file.
C4_OutOfRangeStatus1 ==
    \A c \in Submitted :
        (/\ WellFormed(Req(c))
         /\ Req(c).type \in {VIRTIO_BLK_T_IN, VIRTIO_BLK_T_OUT}
         /\ Req(c).sec.top = 0
         /\ ~InRange(Req(c))
         /\ Finished(c))
        => /\ fate[c] = "published"
           /\ StatusOf(c) = 1
           /\ BufferUntouched(c)
           /\ LastPopped(c) => disk = snap[c].disk

\* -------------------------------------------------------------- C5
\* C5: whatever the guest put in memory, the rings and the descriptor
\* table, write_mmio(QUEUE_NOTIFY) returns to its caller: no thread panics.
C5_NotifyNeverPanics == \A t \in AllThreads : pc[t] # "panicked"

\* -------------------------------------------------------------- C6
\* C6: once a well-formed in-range IN chain has been processed it is
\* published, the data buffer
\* equals the backing bytes of the sector range, the status byte is 0 and
\* the used ring has gained exactly the element (head, data.len).
C6_ReadDeliversSector ==
    \A c \in Submitted :
        (/\ WellFormed(Req(c)) /\ Req(c).type = VIRTIO_BLK_T_IN /\ InRange(Req(c))
         /\ Finished(c) /\ LastPopped(c))
        => /\ fate[c] = "published"
           /\ \A a \in DataBytes(SlotOf(c)) :
                  (a - DataAddr(SlotOf(c)) < Req(c).len)
                  => gmem[a] = MemByte(disk, Req(c).sec.lo * SectorSize
                                             + (a - DataAddr(SlotOf(c))))
           /\ StatusOf(c) = 0
           /\ UsedAdvancedByOne(c)

C6_Witness ==
    \E c \in Submitted :
        /\ WellFormed(Req(c)) /\ Req(c).type = VIRTIO_BLK_T_IN /\ InRange(Req(c))
        /\ Req(c).sec.lo = NumSectors - 1
        /\ fate[c] = "published" /\ LastPopped(c)
        /\ snap[c].usedIdx = 1

\* -------------------------------------------------------------- C7
\* C7: once a well-formed in-range OUT chain has been processed it is
\* published, the backing
\* bytes of the sector range equal the data buffer, every other backing byte
\* is as before, the status byte is 0 and the used ring has gained exactly
\* the element (head, data.len).
C7_WriteStoresBuffer ==
    \A c \in Submitted :
        (/\ WellFormed(Req(c)) /\ Req(c).type = VIRTIO_BLK_T_OUT /\ InRange(Req(c))
         /\ Finished(c) /\ LastPopped(c))
        => /\ fate[c] = "published"
           /\ \A o \in DOMAIN disk :
                  LET off == Req(c).sec.lo * SectorSize
                  IN  IF off <= o /\ o < off + Req(c).len
                      THEN disk[o] = MemByte(gmem, DataAddr(SlotOf(c)) + (o - off))
                      ELSE disk[o] = snap[c].disk[o]
           /\ StatusOf(c) = 0
           /\ UsedAdvancedByOne(c)

C7_Witness ==
    \E c \in Submitted :
        /\ WellFormed(Req(c)) /\ Req(c).type = VIRTIO_BLK_T_OUT /\ InRange(Req(c))
        /\ Req(c).sec.lo = 0 /\ Req(c).len = SectorSize
        /\ fate[c] = "published" /\ LastPopped(c)
        /\ disk # snap[c].disk

\* -------------------------------------------------------------- C8
\* C8: a 512-byte OUT to an in-range sector followed, with no OUT in
\* between, by a 512-byte IN of the same sector leaves the written bytes in
\* the IN chain's data buffer, both with status 0.
RoundTrip(c1, c2) ==
    /\ c1 < c2
    /\ WellFormed(Req(c1)) /\ Req(c1).type = VIRTIO_BLK_T_OUT /\ InRange(Req(c1))
    /\ WellFormed(Req(c2)) /\ Req(c2).type = VIRTIO_BLK_T_IN
    /\ Req(c1).sec = Req(c2).sec
    /\ Req(c1).len = SectorSize /\ Req(c2).len = SectorSize
    /\ \A x \in Submitted : (c1 < x /\ x < c2) => Req(x).type # VIRTIO_BLK_T_OUT
    /\ fate[c1] = "published" /\ fate[c2] = "published"

C8_RoundTrip ==
    \A c1, c2 \in Submitted :
        RoundTrip(c1, c2) =>
            /\ \A a \in DataBytes(SlotOf(c2)) :
                   (a - DataAddr(SlotOf(c2)) < SectorSize)
                   => gmem[a] = BufPattern(Req(c1).val, a - DataAddr(SlotOf(c2)))
            /\ StatusOf(c1) = 0
            /\ StatusOf(c2) = 0

C8_Witness ==
    \E c1, c2 \in Submitted :
        RoundTrip(c1, c2) /\ Req(c1).val = 2 /\ Req(c1).sec.lo = NumSectors - 1

\* -------------------------------------------------------------- C9
\* C9: a request whose sector * 512 does not fit in 64 bits ends as an I/O
\* fault (published, status 1) and moves no data: it is not served from the
\* wrapped offset.
C9_CheckedSectorOffset ==
    \A c \in Submitted :
        (/\ WellFormed(Req(c))
         /\ Req(c).type \in {VIRTIO_BLK_T_IN, VIRTIO_BLK_T_OUT}
         /\ Req(c).sec.top >= 128
         /\ Finished(c))
        => /\ fate[c] = "published"
           /\ StatusOf(c) = 1
           /\ BufferUntouched(c)
           /\ LastPopped(c) => disk = snap[c].disk

\* ------------------------------------------------------------- C10
\* C10: a well-formed chain of an unknown request type is published with
\* status byte 2 and used length data.len, and the backing file is unchanged.
C10_UnknownTypeStatus2 ==
    \A c \in Submitted :
        (/\ WellFormed(Req(c))
         /\ Req(c).type \notin {VIRTIO_BLK_T_IN, VIRTIO_BLK_T_OUT}
         /\ fate[c] = "published" /\ LastPopped(c))
        => /\ StatusOf(c) = 2
           /\ UsedAdvancedByOne(c)
           /\ disk = snap[c].disk

\* ------------------------------------------------------------- C11
\* C11: once a well-formed FLUSH, GET_ID or DISCARD chain has been processed
\* it is published, its status byte is 0, the used ring has gained exactly
\* the element (head, data.len), and neither the backing file nor the data
\* buffer has changed.
C11_NoOpAccepted ==
    \A c \in Submitted :
        (/\ WellFormed(Req(c)) /\ Req(c).type \in NoOpTypes
         /\ Finished(c) /\ LastPopped(c))
        => /\ fate[c] = "published"
           /\ StatusOf(c) = 0
           /\ UsedAdvancedByOne(c)
           /\ disk = snap[c].disk
           /\ BufferUntouched(c)

C11_Witness ==
    \E c \in Submitted :
        /\ WellFormed(Req(c)) /\ Req(c).type = 4
        /\ fate[c] = "published" /\ LastPopped(c)
        /\ usedIdx = 2

\* ------------------------------------------------------------- C12
\* C12: a malformed chain is not dropped: once the notify that popped it has
\* dealt with it, it is published, the used index has advanced past its head
\* and its status byte is 2.
Malformed(r) == r.shape \notin {"ok3", "ok4"}

C12_MalformedPublished ==
    \A c \in Submitted :
        (Malformed(Req(c)) /\ Finished(c))
        => /\ fate[c] = "published"
           /\ usedIdx > snap[c].usedIdx
           /\ (Req(c).shape # "no_status" => StatusOf(c) = 2)

\* ------------------------------------------------------------- C13
\* C13: for a published chain of three or more descriptors the status byte
\* is at the address of the last descriptor, the header bytes are as the
\* driver wrote them, and with two data descriptors the second data buffer
\* does not hold the status byte.
C13_StatusAtLastDescriptor ==
    \A c \in Submitted :
        (Req(c).shape \in {"ok3", "ok4"} /\ fate[c] = "published" /\ LastPopped(c))
        => /\ StatusOf(c) = StatusByte(Req(c).type)
           /\ \A a \in HdrBytes(SlotOf(c)) : gmem[a] = GuestByte(Req(c), SlotOf(c), a)
           /\ (Req(c).shape = "ok4"
               => gmem[DataAddr(SlotOf(c)) + SectorSize]
                    = BufPattern(Req(c).val, SectorSize))

\* ------------------------------------------------------------- C14
\* C14: the used index in guest memory never runs ahead of the used ring:
\* whenever used.idx = n, the elements 1..n of the ring are written and each
\* is the (head, len) of a chain whose publication has completed.
C14_ElemBeforeIdx ==
    /\ usedIdx <= Len(usedRing)
    /\ \A i \in 1 .. usedIdx :
          \E c \in Submitted :
              /\ fate[c] = "published"
              /\ usedRing[i] = [id |-> chains[c].head, len |-> Req(c).len]

\* The second element is in the ring and the index still says one.
C14_Witness ==
    /\ pc[1] = "store_idx"
    /\ usedIdx = 1
    /\ Len(usedRing) = 2

\* --------------------------------------------------- run_vm claims
RunVmReturned == vm.pc = "returned"
Spawned(i) == vcpu[i].st # "none"
Terminated(i) == vcpu[i].st = "done"

\* ------------------------------------------------------------- C15
\* C15: an MMIO exit does not end the vCPU runner: a vCPU whose run call
\* returned with an MMIO exit is dispatched to the device and is Running
\* again.
C15_MmioExitResumes ==
    \A i \in VcpuIds :
        vcpu[i].exit \in MmioExits(vm.backend) => vcpu[i].st = "running"

\* ------------------------------------------------------------- C16
\* C16: once construction has succeeded, run_vm returns Ok exactly when
\* every vCPU runner ended without error, and returns Err when a runner
\* faulted, on every backend.
C16_OkIffNoFault ==
    (RunVmReturned /\ vm.ret.kind # "construct")
    => (vm.ret.ok <=> \A i \in 0 .. (vm.cores - 1) : vcpu[i].res = "ok")

\* ------------------------------------------------------------- C17
\* C17: when run_vm returns the error of a vCPU runner, it is the error of
\* the runner that faulted first in time.
C17_FirstFaultWins ==
    (RunVmReturned /\ vm.ret.kind = "vcpu") => vm.ret.cpu = faultLog[1]

\* ------------------------------------------------------------- C18
\* C18: guest memory is unmapped and the partition deleted only when every
\* spawned vCPU task has terminated.
C18_TeardownAfterJoin ==
    (vm.memory = "released" \/ vm.partition = "deleted")
    => \A i \in VcpuIds : Spawned(i) => Terminated(i)

\* ------------------------------------------------------------- C19
\* C19: when run_vm has returned a construction error, no vCPU task was ever
\* spawned.
C19_ConstructErrorBeforeSpawn ==
    (RunVmReturned /\ vm.ret.kind = "construct") => \A i \in VcpuIds : ~Spawned(i)

\* ------------------------------------------------------------- C20
\* C20: WHvDeletePartition is called once per partition handle: never
\* before run_vm returns, never twice, and exactly once when run_vm has
\* returned after create_partition succeeded.
C20_PartitionDeletedOnce ==
    /\ vm.deletes <= 1
    /\ ~RunVmReturned => vm.deletes = 0
    /\ (RunVmReturned /\ vm.partition # "none")
       => (vm.deletes = 1 /\ vm.partition = "deleted")
    /\ vm.partition = "none" => vm.deletes = 0

\* The partition was deleted on the path where a vCPU's run failed.
C20_Witness ==
    /\ vm.backend = "whp"
    /\ RunVmReturned
    /\ vm.ret.kind = "vcpu" /\ vm.ret.what = "RunError"
    /\ vm.deletes = 1

\* ------------------------------------------------------------- C21
\* C21: set_processor_count_property refuses 0 and every count above 64
\* without calling the hypervisor, and a WHP run_vm with such a count has
\* returned that error before setup_partition, before memory allocation and
\* before any vCPU task is spawned.
C21_BadCountRejectedEarly ==
    /\ \A n \in {0} \cup (65 .. 80) :
          ~StepCalls([cores |-> n], "set_processor_count_property")
    /\ (vm.backend = "whp" /\ vm.cores \notin 1 .. 64)
       => /\ vm.called \subseteq {"create_partition"}
          /\ vm.memory = "none"
          /\ \A i \in VcpuIds : ~Spawned(i)
          /\ vm.step <= 2
          /\ (vm.pc = "construct" /\ vm.step <= 2)
             \/ (RunVmReturned /\ ~vm.ret.ok /\ vm.ret.kind = "construct"
                 /\ vm.ret.what \in {"create_partition", "set_processor_count_property"})

C21_Witness ==
    /\ vm.backend = "whp" /\ vm.cores = 65
    /\ RunVmReturned
    /\ vm.ret.what = "set_processor_count_property"
    /\ vm.called = {"create_partition"}

\* ------------------------------------------------------------- C22
\* C22: VmSetup::new(mega_bytes, cpu_cores_count) holds 2 cores for a count
\* of 0 or 1 and the count itself otherwise, never fewer than 2, and a
\* memory size that is exactly mega_bytes * 1048576: a multiple of 2^20
\* whose quotient by 2^20 is mega_bytes, nothing lost to a 64-bit overflow.
MemoryExact(size, mb) ==
    /\ size.lo % (2 ^ 20) = 0
    /\ (size.lo \div (2 ^ 20)) + 16 * (size.mid % 4096) = mb.lo
    /\ (size.mid \div 4096) + 4096 * size.top = mb.hi
    /\ (mb.hi = 0 /\ mb.lo < 2048) => size.lo + size.mid * (2 ^ 24) = mb.lo * 1048576

ExpectedRegister(offset) ==
    IF offset = 0 THEN 1953655158
    ELSE IF offset = 4 \/ offset = 8 THEN 2
    ELSE IF offset = 12 THEN 1431127377
    ELSE 0

RegisterAccess == mmio'.flip # mmio.flip

DeviceStateUnchanged ==
    UNCHANGED <<gmem, disk, descTable, availRing, usedRing, usedIdx, queue,
                irqLog, fate, pc, loc, borrow>>

\* C23: read_mmio returns 0x74726976 at 0x000, 2 at 0x004, 2 at 0x008,
\* 0x554D4551 at 0x00C, 0 at 0x010 and 0 at every other offset, whatever the
\* device has done before, and a read changes no device, queue, guest-memory
\* or backing state.
C23_ReadMmio ==
    /\ [](mmio.op = "read" => mmio.value = ExpectedRegister(mmio.offset))
    /\ [][(RegisterAccess /\ mmio'.op = "read") => DeviceStateUnchanged]_vars

\* The version register read after a request has been completed.
C23_Witness ==
    /\ mmio.op = "read" /\ mmio.offset = 4 /\ mmio.value = 2
    /\ usedIdx >= 1 /\ Len(irqLog) >= 1

\* -------------------------------------------------------------- C24
\* C24: write_mmio starts descriptor-chain processing exactly when the
\* offset is QUEUE_NOTIFY (0x050); a write to any other offset leaves the
\* queue cursors, the queue addresses and ready flag, guest memory, the
\* backing file and the interrupt line unchanged.
C24_WriteMmio ==
    [][(RegisterAccess /\ mmio'.op = "write")
       => /\ mmio'.offset # 80 => DeviceStateUnchanged
          /\ (\E t \in AllThreads : pc[t] = "idle" /\ pc'[t] = "pop")
             <=> (mmio'.offset = 80 /\ queue.ready)
          /\ UNCHANGED <<gmem, disk, descTable, availRing, usedRing, usedIdx,
                         queue, irqLog, fate>>]_vars

\* A write to another register while a chain is waiting in the ring: the
\* chain is still waiting.
C24_Witness ==
    /\ mmio.op = "write" /\ mmio.offset = 112
    /\ pc[1] = "idle" /\ queue.ready
    /\ AvailIdx # queue.next_avail

\* -------------------------------------------------------------- C25
\* C25: when the queue is not ready, or is ready but the available ring
\* holds no new head (avail.idx = last_avail_idx), process_descriptor_chain
\* pops nothing and leaves last_avail_idx, the used ring, guest memory, the
\* backing file and the interrupt line unchanged.
C25_NothingToPop ==
    [][( \/ (RegisterAccess /\ mmio'.op = "write" /\ mmio'.offset = 80 /\ ~queue.ready)
         \/ \E t \in AllThreads :
               pc[t] = "pop" /\ pc'[t] # "pop" /\ AvailIdx = queue.next_avail )
       => /\ UNCHANGED <<queue, usedRing, usedIdx, gmem, disk, irqLog, fate,
                         descTable, availRing>>
          /\ \A t \in AllThreads : pc'[t] \in {"idle", "return"}]_vars

\* A notify that finds the ring drained after one completed request.
C25_Witness ==
    /\ pc[1] = "return" /\ mmio.op = "write" /\ mmio.offset = 80
    /\ AvailIdx = queue.next_avail /\ AvailIdx = 1
    /\ usedIdx = 1 /\ Len(irqLog) = 1

\* A notify on a queue that is not ready while a chain is waiting.
C25_WitnessNotReady ==
    /\ pc[1] = "idle" /\ mmio.op = "write" /\ mmio.offset = 80
    /\ ~queue.ready /\ AvailIdx # queue.next_avail
\* -------------------------------------------------------------- C26
\* Every byte of [base, base + size) is guest memory.  Memory only changes
\* at region boundaries, so the first byte and the bytes at boundaries
\* inside the ring decide.
RingInside(mem, ring) ==
    \A a \in {ring.base} \cup UNION {{r.lo, r.hi} : r \in mem} :
        (ring.base <= a /\ a < ring.base + ring.size) => address_in_range(mem, a)

\* C26: VirtioBlockDevice::new returns Err("queue is invalid") and constructs
\* no device whenever any of the three ring regions (descriptor table at
\* 0x1000, available ring at 0x2000, used ring at 0x3000, queue size 1024)
\* does not lie entirely inside guest memory, and returns Ok only when all
\* three do.
C26_NewRejectsRingsOutsideMemory ==
    ctor.ret # "none"
    => /\ (\E ring \in Rings : ~RingInside(ctor.mem, ring)) => ctor.ret = "queue is invalid"
       /\ ctor.ret = "ok" => \A ring \in Rings : RingInside(ctor.mem, ring)
\* -------------------------------------------------------------- C27
\* C27: every error outcome that a vCPU runner can return (creation failure,
\* run failure, each classified exit and the catch-all unhandled exit)
\* carries the id of the vCPU it belongs to together with the exit
\* classification, on every backend.
C27_ErrorsCarryVcpuId ==
    \A i \in VcpuIds :
        vcpu[i].res = "err" => MessageHasVcpuId(vm.backend, vcpu[i].exit)
\* -------------------------------------------------------------- C28
\* C28: download_linux_lts_image downloads the distribution image only if it
\* is not already present: when the presence check reports the image present
\* no download is performed and Ok is returned, and when it reports the image
\* absent the download is performed.
C28_DownloadOnlyIfAbsent ==
    img.ret # "none"
    => /\ img.present => (~img.requested /\ img.ret = "ok")
       /\ ~img.present => img.requested
\* -------------------------------------------------------------- C29
\* The byte ranges [base, base + size) of two rings have no byte in common.
Disjoint(r1, r2) == r1.base + r1.size <= r2.base \/ r2.base + r2.size <= r1.base

\* The 8 bytes of used-ring element number n (1-based): 4 bytes of header,
\* then 8 bytes per element.
UsedElem(n) == [base |-> UsedRingAddr + 4 + 8 * (n - 1), size |-> 8]

\* C29: with the ring addresses and queue size fixed by
\* VirtioBlockDevice::new (descriptor table 0x1000, available ring 0x2000,
\* used ring 0x3000, 1024 descriptors of 16 bytes, 2-byte avail elements,
\* 8-byte used elements), the three regions of the virtqueue are pairwise
\* disjoint, so that an add_used write never overwrites a descriptor or an
\* available-ring slot.
C29_RingsDisjoint ==
    /\ \A r1 \in Rings, r2 \in Rings : r1 # r2 => Disjoint(r1, r2)
    /\ \A n \in 1 .. Len(usedRing) :
          /\ Disjoint(UsedElem(n), [base |-> DescTableAddr, size |-> DescTableSize])
          /\ Disjoint(UsedElem(n), [base |-> AvailRingAddr, size |-> AvailRingSize])

\* The same for the used elements alone: violated once add_used has written one.
C29_UsedWritesOutsideDescTable ==
    \A n \in 1 .. Len(usedRing) :
        Disjoint(UsedElem(n), [base |-> DescTableAddr, size |-> DescTableSize])
\* -------------------------------------------------------------- C30
\* The guest can see the used index advanced past chain c.
UsedIndexPast(c) ==
    /\ c <= queue.next_avail
    /\ fate[c] # "dropped"
    /\ usedIdx > snap[c].usedIdx

\* The steps of one thread follow each other in the order transfer, status
\* byte, used element, used index, interrupt.
StepsInOrder(t) ==
    /\ pc'[t] # pc[t] =>
          /\ pc'[t] = "status" => pc[t] = "io"
          /\ pc'[t] = "add_used" => pc[t] = "status"
          /\ pc'[t] = "store_idx" => pc[t] = "add_used"
          /\ pc'[t] = "notify" => pc[t] = "store_idx"
    /\ (gmem' # gmem \/ disk' # disk) => pc[t] \in {"io", "status"}

\* C30: per chain the drainer steps occur in the order data transfer,
\* status-byte write, add_used, (optional) trigger; hence in every state in
\* which the guest can observe the used index advanced past a chain, that
\* chain's status byte and, for IN, its data buffer have already been
\* written.
C30_WrittenBeforePublished ==
    /\ [][ /\ (\E t \in AllThreads : pc'[t] # pc[t]) => StepsInOrder(1)
           /\ (usedRing' # usedRing) => pc[1] = "add_used"
           /\ (usedIdx' # usedIdx) => pc[1] = "store_idx"
           /\ (irqLog' # irqLog) => pc[1] = "notify" ]_vars
    /\ [](\A c \in Submitted :
            (WellFormed(Req(c)) /\ UsedIndexPast(c) /\ LastPopped(c))
            => /\ StatusOf(c) # StatusUnset
               /\ (Req(c).type = VIRTIO_BLK_T_IN)
                  => \A a \in DataBytes(SlotOf(c)) :
                         (a - DataAddr(SlotOf(c)) < Req(c).len)
                         => gmem[a] = MemByte(disk, Req(c).sec.lo * SectorSize
                                                    + (a - DataAddr(SlotOf(c)))))

\* The used index covers an IN chain whose interrupt has not been raised yet.
C30_Witness ==
    \E c \in Submitted :
        /\ WellFormed(Req(c)) /\ Req(c).type = VIRTIO_BLK_T_IN
        /\ UsedIndexPast(c) /\ LastPopped(c)
        /\ pc[1] = "notify" /\ Len(irqLog) = 0
        /\ ~BufferUntouched(c)
LoopExit(t) == pc[t] = "return" /\ loc[t] = NoLoc

PoppedChains == {c \in Submitted : fate[c] \notin {"none", "avail"}}

\* C33: last_avail_idx only ever advances, by exactly one per popped chain
\* and modulo 2^16 (wrapping from 65535 to 0), never past the guest's
\* avail.idx; the number of chains published to the used ring never exceeds
\* the number of chains popped, each popped head being published at most
\* once.
C33_CursorInvariant ==
    /\ [][queue'.next_avail # queue.next_avail
          => /\ queue'.next_avail = (queue.next_avail + 1) % U16
             /\ queue.next_avail # AvailIdx
             /\ \E c \in Submitted :
                   /\ fate[c] = "avail" /\ fate'[c] = "popped"
                   /\ \A x \in Submitted \ {c} : fate'[x] = fate[x]]_vars
    /\ [](/\ queue.next_avail \in 0 .. (U16 - 1)
          /\ Popped(queue) = Cardinality(PoppedChains)
          /\ Popped(queue) <= Len(availRing)
          /\ Len(usedRing) <= Popped(queue)
          /\ Cardinality({c \in Submitted : fate[c] = "published"}) <= Popped(queue)
          /\ \A i \in 1 .. Len(usedRing), j \in 1 .. Len(usedRing) :
                i # j => usedRing[i].id # usedRing[j].id
          /\ \A i \in 1 .. Len(usedRing) :
                \E c \in PoppedChains : usedRing[i].id = chains[c].head)

\* The cursor has wrapped from 65535 to 0 and the chain popped there was
\* published.
C33_Witness ==
    /\ queue.start = U16 - 1 /\ queue.next_avail = 1
    /\ fate[1] = "published" /\ fate[2] = "popped"
\* -------------------------------------------------------------- C34
\* C34: a chain that ends up dropped without publication (for example a
\* header + data chain with no status descriptor) has caused no modification
\* of the backing file and no modification of the guest data buffer.
C34_DroppedChainMovedNoData ==
    \A c \in Submitted :
        (fate[c] = "dropped" /\ LastPopped(c))
        => /\ disk = snap[c].disk
           /\ BufferUntouched(c)

\* -------------------------------------------------------------- C35
\* Descriptor d is device-writable.
HasWrite(d) == (d.flags \div VRING_DESC_F_WRITE) % 2 = 1

\* The descriptors the guest driver filled for chain c.
DescsOf(c) ==
    {i \in HeadOf(SlotOf(c)) .. (HeadOf(SlotOf(c)) + DescPerChain - 1) :
        descTable[i] # ZeroDesc}

\* C35: the device writes into guest memory only through descriptors whose
\* WRITE flag is set: the bytes of a device-readable descriptor (an IN data
\* buffer or a status byte with WRITE clear) stay as the driver left them.
C35_WritesOnlyThroughWritable ==
    \A c \in Submitted :
        \A i \in DescsOf(c) :
            ~HasWrite(descTable[i])
            => \A a \in DOMAIN gmem :
                   (descTable[i].addr <= a /\ a < descTable[i].addr + descTable[i].len)
                   => gmem[a] = GuestByte(Req(c), SlotOf(c), a)
\* -------------------------------------------------------------- C36
\* C36: the interrupt line is triggered only from the drainer, only after a
\* chain was published and needs_notification returned true for it, and at
\* most once per published chain: the number of trigger() calls is at most
\* the number of used-ring entries published, and a chain for which
\* needs_notification is false causes no trigger.
C36_TriggerOnlyAfterPublish ==
    /\ [][irqLog' # irqLog
          => \E t \in AllThreads :
                /\ pc[t] = "notify"
                /\ needs_notification(queue)
                /\ fate[loc[t].cur] = "published"
                /\ irqLog' = Append(irqLog, loc[t].cur)]_vars
    /\ [](/\ Len(irqLog) <= Len(usedRing)
          /\ Len(irqLog) <= Used(queue)
          /\ \A i \in 1 .. Len(irqLog) : fate[irqLog[i]] = "published"
          /\ \A i \in 1 .. Len(irqLog), j \in 1 .. Len(irqLog) :
                i # j => irqLog[i] # irqLog[j])

\* One chain published and one dropped: one interrupt.
C36_Witness ==
    /\ pc[1] = "idle"
    /\ \E c \in Submitted : fate[c] = "dropped"
    /\ \E c \in Submitted : fate[c] = "published" /\ irqLog = <<c>>
    /\ Len(chains) = 2 /\ queue.next_avail = 2
\* -------------------------------------------------------------- C37
\* Heads the guest has published and the device has not popped yet.
Pending == (AvailIdx - queue.next_avail) % U16

\* C37: write_mmio(QUEUE_NOTIFY) terminates for every guest-memory content
\* once the guest stops publishing new heads: at most three descriptors of a
\* chain are read, even when its next pointers form a cycle or point out of
\* range, and every iteration of the drain loop takes one head off the
\* pending ones.
C37_NotifyTerminates ==
    /\ \A t \in {1} : Active(t) ~> ~Active(t)
    /\ [](\A t \in AllThreads :
            loc[t].it.ttl = 0 \/ loc[t].it.ttl >= QueueSize - 3)
    /\ [][\A t \in AllThreads :
            (pc[t] = "pop" /\ pc'[t] = "parse")
            => (Pending > 0 /\ Pending' = Pending - 1)]_vars

\* A chain whose data descriptor links back to the header has been dealt
\* with and the call has returned.
C37_Witness ==
    \E c \in Submitted :
        /\ Req(c).shape = "cycle" /\ Finished(c)
        /\ pc[1] = "idle" /\ Pending = 0
\* -------------------------------------------------------------- C38
\* C38: every vCPU runner terminates as soon as its hypervisor run call
\* returns for the first time: each classified exit, each unclassified exit
\* and each run error is a terminal outcome, so no runner re-enters Running
\* after an exit; when every vCPU's run call returns, run_vm eventually
\* returns.
C38_RunnersTerminate ==
    /\ [][\A i \in VcpuIds :
            /\ (vcpu[i].st = "running" /\ vcpu'[i] # vcpu[i])
               => (vcpu'[i].st = "done" /\ vcpu'[i].res \in {"ok", "err"})
            /\ vcpu[i].st = "done" => vcpu'[i] = vcpu[i]]_vars
    /\ (vm.pc # "off") ~> RunVmReturned

\* run_vm has returned Ok after both runners ended on their first exit.
C38_Witness ==
    /\ RunVmReturned /\ vm.ret.ok
    /\ \A i \in 0 .. (vm.cores - 1) : Terminated(i)
    /\ vm.backend = "kvm" /\ vcpu[0].exit = "Hlt" /\ vcpu[1].exit = "Shutdown"

\* ------------------------------------------------------------- C39
\* Runner j has been spawned and has not yet returned from its task.
StillRunning(j) == Spawned(j) /\ ~Terminated(j)

\* The exits of the run call that the runner answers with Err: the guest did
\* something the runner has no arm for.
GuestFaults(b) == {e \in Exits(b) \ {"RunError"} : "err" \in Classify(b, e)}

\* C39: a fault of vCPU i ends runner i only.  The step in which runner i
\* faults leaves every other runner as it is, and the step in which run_vm
\* returns the error of runner i leaves every runner that has not yet
\* reached its own exit with the guest memory and the partition it runs on.
C39_FaultEndsOnlyOffender ==
    [][/\ \A i \in VcpuIds :
            (vcpu'[i] # vcpu[i] /\ vcpu'[i].res = "err"
                                /\ vcpu'[i].exit \in GuestFaults(vm.backend))
            => \A j \in VcpuIds \ {i} : vcpu'[j] = vcpu[j]
       /\ (vm.pc # "returned" /\ vm'.pc = "returned" /\ vm'.ret.kind = "vcpu"
                                /\ vm'.ret.what \in GuestFaults(vm.backend))
          => \A j \in VcpuIds \ {vm'.ret.cpu} :
                StillRunning(j)
                => (vm'.memory = vm.memory /\ vm'.partition = vm.partition)]_vars

\* ------------------------------------------------------------- C40
\* The guest-physical address at which run_vm registers the guest memory:
\* guest_phys_addr 0x4000 of slot 0 on KVM, mem.map(0x4000) on HVF, and
\* WHvMapGpaRange at 0x0000 on WHP.
GuestBase(b) ==
    CASE b = "kvm" -> 16384
      [] b = "hvf" -> 16384
      [] OTHER -> 0

\* The instruction pointer run_vm gives a vCPU before its first run call:
\* regs.rip = 0x1000 on KVM, Reg::PC = 0x4000 on HVF.
InitialIp(b) ==
    CASE b = "kvm" -> 4096
      [] b = "hvf" -> 16384

\* Address a is a byte of [base, base + size), size in the limbs of a u64.
InGuestRange(a, base, size) ==
    /\ base <= a
    /\ (size.top > 0 \/ size.mid > 0 \/ a - base < size.lo)

\* C40: on the backends where run_vm sets it (KVM and HVF), the initial
\* instruction pointer of a vCPU that is in its run call lies inside the
\* guest-physical range [guest_base, guest_base + memory_bytes) that run_vm
\* registered with the hypervisor.
C40_InitialIpInGuestMemory ==
    \A i \in VcpuIds :
        (vm.backend \in {"kvm", "hvf"} /\ vcpu[i].st = "running")
        => InGuestRange(InitialIp(vm.backend), GuestBase(vm.backend), vm.memory_size)
====
